---------------------------- MODULE Spec2Model ----------------------------
(***************************************************************************)
(* Model of the conversation history store of llm_chat                     *)
(* (src/src/llm_chat/utils/chat_history.py, class ChatHistoryManager) and  *)
(* of its message classes (src/src/llm_chat/chat/message.py), of the       *)
(* completion client (src/src/llm_chat/chat/client.py) and of the chat     *)
(* session that saves through the store (src/src/llm_chat/main.py).        *)
(*                                                                         *)
(* Strings are tuples of one-character strings, so that str.split, join,   *)
(* strftime, isoformat and the string comparison used by the sort are     *)
(* computed rather than assumed.  Python's None is the tuple <<"None">>,   *)
(* which no string of characters equals.                                   *)
(***************************************************************************)
EXTENDS Integers, Sequences, FiniteSets, TLC

VARIABLES
    files,                  \* storage_dir: file stem -> JSON document
    _conversations_cache,   \* ChatHistoryManager._conversations_cache
    clock,                  \* the last value datetime.now() returned
    ret,                    \* the last call: its arguments and its outcome
    prev,                   \* the call before it
    session_state,          \* st.session_state of the chat session (main.py)
    renaming                \* the rename_conversation call that a second
                            \* ChatHistoryManager is in: its arguments and
                            \* its local variable conversation

vars == <<files, _conversations_cache, clock, ret, prev, session_state, renaming>>

-----------------------------------------------------------------------------
(* Bounds of the model *)

\* the clock runs over 0..MaxClock ticks (a tick stands for a microsecond step)
MaxClock == 2

\* ticks per clock second: strftime("%Y%m%d_%H%M%S") only sees the second
TicksPerSec == 2

-----------------------------------------------------------------------------
(* Python values *)

None == <<"None">>

\* bool(x) is False: None or the empty string
Falsy(x) == x = None \/ x = <<>>

Min(a, b) == IF a < b THEN a ELSE b

Digits == <<"0", "1", "2", "3", "4", "5", "6", "7", "8", "9">>

\* order of the characters that occur in timestamps ('.' < '0' < ... < '9')
CharRank(c) ==
    IF c = "." THEN 0
    ELSE (CHOOSE i \in 1..10 : Digits[i] = c)

\* Python's s1 < s2 on strings: lexicographic, a proper prefix is smaller
RECURSIVE StrLess(_, _)
StrLess(s1, s2) ==
    IF s2 = <<>> THEN FALSE
    ELSE IF s1 = <<>> THEN TRUE
    ELSE IF Head(s1) = Head(s2) THEN StrLess(Tail(s1), Tail(s2))
    ELSE CharRank(Head(s1)) < CharRank(Head(s2))

IsSpace(c) == c \in {" ", "\t", "\n"}

\* str.split(): the maximal runs of non-whitespace characters
RECURSIVE SplitAcc(_, _, _)
SplitAcc(s, cur, acc) ==
    IF s = <<>> THEN (IF cur = <<>> THEN acc ELSE Append(acc, cur))
    ELSE IF IsSpace(Head(s))
         THEN SplitAcc(Tail(s), <<>>, IF cur = <<>> THEN acc ELSE Append(acc, cur))
         ELSE SplitAcc(Tail(s), Append(cur, Head(s)), acc)

Split(s) == SplitAcc(s, <<>>, <<>>)

\* " ".join(words)
RECURSIVE Join(_)
Join(words) ==
    IF words = <<>> THEN <<>>
    ELSE IF Len(words) = 1 THEN words[1]
    ELSE words[1] \o <<" ">> \o Join(Tail(words))

\* datetime.now().strftime("%Y%m%d_%H%M%S"): fixed-width digits of the second
strftime(t) ==
    LET sec == t \div TicksPerSec
    IN  <<Digits[(sec \div 10) + 1], Digits[(sec % 10) + 1]>>

\* datetime.now().isoformat(): the fraction is left out when it is zero
isoformat(t) ==
    LET sec  == t \div TicksPerSec
        usec == t % TicksPerSec
    IN  <<Digits[(sec \div 10) + 1], Digits[(sec % 10) + 1]>>
        \o (IF usec = 0 THEN <<>> ELSE <<".", Digits[usec + 1]>>)

\* dict.get(key, default)
DictGet(d, k, default) == IF k \in DOMAIN d THEN d[k] ELSE default

-----------------------------------------------------------------------------
(* json.dump / json.load of a conversation record: None is written as null *)

JsonNull == <<"null">>

JsonDump(data) == [data EXCEPT !.title = IF @ = None THEN JsonNull ELSE @]

JsonLoad(doc) == [doc EXCEPT !.title = IF @ = JsonNull THEN None ELSE @]

-----------------------------------------------------------------------------
(* Inputs *)

user_long  == [role |-> "user",
               content |-> <<"a", " ", "b", " ", " ", "c", " ", "d", " ", "e", " ", "f">>]
assistant  == [role |-> "assistant", content |-> <<"o", "k">>]

\* the message lists a caller passes to save
MessageLists == {<<>>, <<assistant, user_long>>}

\* ids a caller names: the ids save hands out, whether or not a record has them
Ids == {strftime(t) : t \in 0..MaxClock}

\* conversation_id argument of save: absent (None) or an id
IdArgs == {None} \cup Ids

\* title argument of save: absent (None) or a title
TitleArgs == {None, <<"T">>}

\* new_title argument of rename
NewTitles == {<<"N">>}

\* system_prompt argument of save: NotPassed when the caller leaves it out
NotPassed == <<"NotPassed">>
SystemPromptArgs == {NotPassed, <<"S">>}

-----------------------------------------------------------------------------
(* The record of a call, kept for the properties *)

NoCall == [op |-> "none"]

\* what is remembered of the call before the last: its operation, the id it was
\* about (the id returned, for a save) and whether it succeeded
summary(r) ==
    [op |-> r.op,
     id |-> IF r.op \in {"save", "other_save"} THEN r.returned
            ELSE IF r.op \in {"load", "delete", "rename", "other_delete", "other_rename"}
                 THEN r.conversation_id
            ELSE None,
     ok |-> IF r.op \in {"delete", "rename", "other_delete", "other_rename"}
            THEN r.returned /\ r.raised = ""
            ELSE IF r.op \in {"save", "load"} THEN r.raised = ""
            ELSE TRUE,
     cache_was_none |-> IF r.op \in {"save", "other_save", "other_delete", "other_rename"}
                        THEN r.cache_was_none ELSE TRUE]

-----------------------------------------------------------------------------
(* The storage directory *)

\* a file whose content json.load rejects, and a file that open() refuses
\* with PermissionError
InvalidJson == [invalid_json |-> TRUE]
Denied == [denied |-> TRUE]

\* the exception that open(file_path) and json.load(f) end with, "" for none
read_error(fs, conversation_id) ==
    IF conversation_id \notin DOMAIN fs THEN "FileNotFoundError"
    ELSE IF fs[conversation_id] = Denied THEN "PermissionError"
    ELSE IF fs[conversation_id] = InvalidJson THEN "JSONDecodeError"
    ELSE ""

\* the exception that open(file_path, 'w') ends with, "" for none
write_error(fs, conversation_id) ==
    IF conversation_id \in DOMAIN fs /\ fs[conversation_id] = Denied
    THEN "PermissionError" ELSE ""

\* file_path.exists()
path_exists(fs, conversation_id) == conversation_id \in DOMAIN fs

\* (mutant) the messages are appended to those of the record already there
write_file_merging(fs, conversation_id, data) ==
    [x \in DOMAIN fs \cup {conversation_id} |->
        IF x = conversation_id
        THEN IF x \in DOMAIN fs
             THEN JsonDump([data EXCEPT !.messages = fs[x].messages \o @])
             ELSE JsonDump(data)
        ELSE fs[x]]

\* (mutant) the write empties the directory of its other files
write_file_alone(fs, conversation_id, data) ==
    [x \in {conversation_id} |-> JsonDump(data)]

\* open(file_path, 'w') ; json.dump(data, f): creates or replaces the whole file
write_file(fs, conversation_id, data) ==
    [x \in DOMAIN fs \cup {conversation_id} |->
        IF x = conversation_id THEN JsonDump(data) ELSE fs[x]]

\* open(file_path, 'r') ; json.load(f)
read_file(fs, conversation_id) == JsonLoad(fs[conversation_id])

\* (mutant) the file is left in place
remove_nothing(fs, conversation_id) == fs

\* os.remove(file_path)
remove_file(fs, conversation_id) ==
    [x \in DOMAIN fs \ {conversation_id} |-> fs[x]]

\* self._conversations_cache = None, and a populated cache
CacheNone == [is_none |-> TRUE, list |-> <<>>]
CacheOf(conversations) == [is_none |-> FALSE, list |-> conversations]

-----------------------------------------------------------------------------
(* save_conversation *)

\* lines 54-55: a new id from the clock when none is given
new_conversation_id(conversation_id, t) ==
    IF Falsy(conversation_id) THEN strftime(t) ELSE conversation_id

\* next(m for m in messages if m["role"] == "user", None)
first_user_msg(messages) ==
    LET idx == {i \in 1..Len(messages) : messages[i].role = "user"}
    IN  IF idx = {} THEN None
        ELSE messages[CHOOSE i \in idx : \A j \in idx : i <= j].content

\* (mutant) the ellipsis is appended from five words on
derive_title_from_five(title, messages, conversation_id) ==
    IF Falsy(title) /\ messages # <<>>
    THEN LET content == first_user_msg(messages)
         IN  IF content # None
             THEN LET words == Split(content)
                  IN  Join(SubSeq(words, 1, Min(5, Len(words))))
                      \o (IF Len(words) >= 5 THEN <<".", ".", ".">> ELSE <<>>)
             ELSE <<"C", "o", "n", "v", "e", "r", "s", "a", "t", "i", "o", "n", " ">>
                  \o conversation_id
    ELSE title

\* lines 58-68: the title, derived from the first user message when none is given
derive_title(title, messages, conversation_id) ==
    IF Falsy(title) /\ messages # <<>>
    THEN LET content == first_user_msg(messages)
         IN  IF content # None
             THEN LET words == Split(content)
                  IN  Join(SubSeq(words, 1, Min(5, Len(words))))
                      \o (IF Len(words) > 5 THEN <<".", ".", ".">> ELSE <<>>)
             ELSE <<"C", "o", "n", "v", "e", "r", "s", "a", "t", "i", "o", "n", " ">>
                  \o conversation_id
    ELSE title

\* (mutant) the messages are written in reverse order
conversation_data_reversed(conversation_id, title, t_created, t_updated, messages) ==
    [id       |-> conversation_id,
     title    |-> title,
     created  |-> isoformat(t_created),
     updated  |-> isoformat(t_updated),
     messages |-> [i \in 1..Len(messages) |-> messages[Len(messages) + 1 - i]]]

\* (mutant) the id written is not the id the file is named by
conversation_data_without_id(conversation_id, title, t_created, t_updated, messages) ==
    [id       |-> None,
     title    |-> title,
     created  |-> isoformat(t_created),
     updated  |-> isoformat(t_updated),
     messages |-> messages]

\* lines 71-77: the record written
conversation_data(conversation_id, title, t_created, t_updated, messages) ==
    [id       |-> conversation_id,
     title    |-> title,
     created  |-> isoformat(t_created),
     updated  |-> isoformat(t_updated),
     messages |-> messages]

\* (mutant) save leaves the cache as it is
cache_kept(cache) == cache

\* the cache after a save (line 85)
cache_after_save(cache) == CacheNone

save_conversation(messages, conversation_id, title, system_prompt, t1, t2, t3) ==
    LET call == [op |-> "save", messages |-> messages,
                 conversation_id |-> conversation_id, title |-> title,
                 system_prompt |-> system_prompt,
                 cache_was_none |-> _conversations_cache.is_none]
    IN
    /\ clock <= t1 /\ t1 <= t2 /\ t2 <= t3
    /\ prev' = summary(ret)
    /\ IF system_prompt # NotPassed
       THEN \* the signature has no such parameter: the call raises TypeError
            /\ t1 = clock /\ t2 = clock /\ t3 = clock
            /\ messages = CHOOSE m \in MessageLists : TRUE
            /\ conversation_id = None /\ title = None
            /\ ret' = call @@ [raised |-> "TypeError", returned |-> None]
            /\ UNCHANGED <<files, _conversations_cache, clock>>
       ELSE LET cid  == new_conversation_id(conversation_id, t1)
                ttl  == derive_title(title, messages, cid)
                data == conversation_data(cid, ttl, t2, t3, messages)
            IN  /\ (~Falsy(conversation_id) => t1 = clock)
                /\ clock' = t3
                /\ IF write_error(files, cid) # ""
                   THEN \* open(file_path, 'w') raises: nothing after it runs
                        /\ ret' = call @@ [raised |-> write_error(files, cid),
                                           returned |-> None]
                        /\ UNCHANGED <<files, _conversations_cache>>
                   ELSE /\ files' = write_file(files, cid, data)
                        /\ _conversations_cache' = cache_after_save(_conversations_cache)
                        /\ ret' = call @@ [raised |-> "", returned |-> cid]

-----------------------------------------------------------------------------
(* load_conversation *)

\* (mutant) load drops the cache, as the mutating calls do
load_invalidating(conversation_id) ==
    /\ prev' = summary(ret)
    /\ IF ~path_exists(files, conversation_id)
       THEN ret' = [op |-> "load", conversation_id |-> conversation_id,
                    raised |-> "FileNotFoundError", returned |-> None]
       ELSE ret' = [op |-> "load", conversation_id |-> conversation_id,
                    raised |-> "", returned |-> read_file(files, conversation_id)]
    /\ _conversations_cache' = CacheNone
    /\ UNCHANGED <<files, clock>>

load_conversation(conversation_id) ==
    /\ prev' = summary(ret)
    /\ IF ~path_exists(files, conversation_id)
       THEN ret' = [op |-> "load", conversation_id |-> conversation_id,
                    raised |-> "FileNotFoundError", returned |-> None]
       ELSE IF read_error(files, conversation_id) # ""
       THEN \* open or json.load raises
            ret' = [op |-> "load", conversation_id |-> conversation_id,
                    raised |-> read_error(files, conversation_id), returned |-> None]
       ELSE ret' = [op |-> "load", conversation_id |-> conversation_id,
                    raised |-> "", returned |-> read_file(files, conversation_id)]
    /\ UNCHANGED <<files, _conversations_cache, clock>>

-----------------------------------------------------------------------------
(* delete_conversation *)

\* (mutant) a delete that removes the file leaves the cache as it is
delete_keeping_cache(conversation_id) ==
    /\ prev' = summary(ret)
    /\ IF ~path_exists(files, conversation_id)
       THEN /\ ret' = [op |-> "delete", conversation_id |-> conversation_id,
                       raised |-> "", returned |-> FALSE]
            /\ UNCHANGED <<files, _conversations_cache, clock>>
       ELSE /\ files' = remove_file(files, conversation_id)
            /\ ret' = [op |-> "delete", conversation_id |-> conversation_id,
                       raised |-> "", returned |-> TRUE]
            /\ UNCHANGED <<_conversations_cache, clock>>

delete_conversation(conversation_id) ==
    /\ prev' = summary(ret)
    /\ IF ~path_exists(files, conversation_id)
       THEN /\ ret' = [op |-> "delete", conversation_id |-> conversation_id,
                       raised |-> "", returned |-> FALSE]
            /\ UNCHANGED <<files, _conversations_cache, clock>>
       ELSE /\ files' = remove_file(files, conversation_id)
            /\ _conversations_cache' = CacheNone
            /\ ret' = [op |-> "delete", conversation_id |-> conversation_id,
                       raised |-> "", returned |-> TRUE]
            /\ UNCHANGED clock

-----------------------------------------------------------------------------
(* list_conversations *)

\* lines 154-160: the metadata of one record
conversation_meta(data, stem) ==
    [id            |-> DictGet(data, "id", stem),
     title         |-> DictGet(data, "title",
                               <<"U", "n", "n", "a", "m", "e", "d">>),
     created       |-> DictGet(data, "created", <<>>),
     updated       |-> DictGet(data, "updated", <<>>),
     message_count |-> Len(DictGet(data, "messages", <<>>))]

\* insert x into a list sorted newest first, after the entries that are not older
RECURSIVE insert_newest_first(_, _)
insert_newest_first(x, sorted) ==
    IF sorted = <<>> THEN <<x>>
    ELSE IF StrLess(Head(sorted).created, x.created)
         THEN <<x>> \o sorted
         ELSE <<Head(sorted)>> \o insert_newest_first(x, Tail(sorted))

\* (mutant) the list is left in the order of the scan
unsorted(conversations) == conversations

\* line 166: conversations.sort(key=created, reverse=True), a stable sort
RECURSIVE sort_newest_first(_)
sort_newest_first(conversations) ==
    IF conversations = <<>> THEN <<>>
    ELSE insert_newest_first(conversations[Len(conversations)],
             sort_newest_first(SubSeq(conversations, 1, Len(conversations) - 1)))

\* the orders in which storage_dir.glob("*.json") can yield the files
GlobOrders(fs) ==
    {order \in [1..Cardinality(DOMAIN fs) -> DOMAIN fs] :
        \A i, j \in DOMAIN order : i # j => order[i] # order[j]}

\* (mutant) the scan ends at the first file that cannot be opened or parsed
RECURSIVE scanned_until_error(_, _)
scanned_until_error(fs, order) ==
    IF order = <<>> THEN <<>>
    ELSE IF read_error(fs, Head(order)) # ""
         THEN <<>>
         ELSE <<conversation_meta(read_file(fs, Head(order)), Head(order))>>
              \o scanned_until_error(fs, Tail(order))

\* lines 148-163: a file that cannot be opened or parsed is logged and skipped
RECURSIVE scanned(_, _)
scanned(fs, order) ==
    IF order = <<>> THEN <<>>
    ELSE IF read_error(fs, Head(order)) # ""
         THEN scanned(fs, Tail(order))
         ELSE <<conversation_meta(read_file(fs, Head(order)), Head(order))>>
              \o scanned(fs, Tail(order))

\* lines 145-166: scan the directory and sort
scan(fs, order) == sort_newest_first(scanned(fs, order))

\* (mutant) a populated cache is returned whatever force_refresh says
list_ignoring_force(force_refresh, order) ==
    /\ prev' = summary(ret)
    /\ IF ~_conversations_cache.is_none
       THEN /\ order = CHOOSE o \in GlobOrders(files) : TRUE
            /\ ret' = [op |-> "list", force_refresh |-> force_refresh,
                       raised |-> "", returned |-> _conversations_cache.list]
            /\ UNCHANGED <<files, _conversations_cache, clock>>
       ELSE /\ _conversations_cache' = CacheOf(scan(files, order))
            /\ ret' = [op |-> "list", force_refresh |-> force_refresh,
                       raised |-> "", returned |-> scan(files, order)]
            /\ UNCHANGED <<files, clock>>

list_conversations(force_refresh, order) ==
    /\ prev' = summary(ret)
    /\ IF ~_conversations_cache.is_none /\ ~force_refresh
       THEN /\ order = CHOOSE o \in GlobOrders(files) : TRUE
            /\ ret' = [op |-> "list", force_refresh |-> force_refresh,
                       raised |-> "", returned |-> _conversations_cache.list]
            /\ UNCHANGED <<files, _conversations_cache, clock>>
       ELSE /\ _conversations_cache' = CacheOf(scan(files, order))
            /\ ret' = [op |-> "list", force_refresh |-> force_refresh,
                       raised |-> "", returned |-> scan(files, order)]
            /\ UNCHANGED <<files, clock>>

-----------------------------------------------------------------------------
(* rename_conversation *)

\* (mutant) only the title is replaced
renamed_title_only(conversation, new_title, t) ==
    [conversation EXCEPT !.title = new_title]

\* lines 185-186: the loaded record with its title and updated replaced
renamed(conversation, new_title, t) ==
    [conversation EXCEPT !.title = new_title, !.updated = isoformat(t)]

\* (mutant) a missing record is created instead of reported
rename_creating(conversation_id, new_title, t) ==
    /\ prev' = summary(ret)
    /\ clock <= t
    /\ files' = write_file(files, conversation_id,
                   IF path_exists(files, conversation_id)
                   THEN [read_file(files, conversation_id)
                            EXCEPT !.title = new_title, !.updated = isoformat(t)]
                   ELSE [id |-> conversation_id, title |-> new_title,
                         created |-> isoformat(t), updated |-> isoformat(t),
                         messages |-> <<>>])
    /\ _conversations_cache' = CacheNone
    /\ clock' = t
    /\ ret' = [op |-> "rename", conversation_id |-> conversation_id,
               new_title |-> new_title, raised |-> "",
               returned |-> path_exists(files, conversation_id)]

rename_conversation(conversation_id, new_title, t) ==
    /\ prev' = summary(ret)
    /\ clock <= t
    /\ IF ~path_exists(files, conversation_id)
       THEN \* load_conversation raised FileNotFoundError: return False
            /\ t = clock
            /\ ret' = [op |-> "rename", conversation_id |-> conversation_id,
                       new_title |-> new_title, raised |-> "", returned |-> FALSE]
            /\ UNCHANGED <<files, _conversations_cache, clock>>
       ELSE IF read_error(files, conversation_id) # ""
       THEN \* load_conversation raised another exception: it is not caught
            /\ t = clock
            /\ ret' = [op |-> "rename", conversation_id |-> conversation_id,
                       new_title |-> new_title,
                       raised |-> read_error(files, conversation_id),
                       returned |-> FALSE]
            /\ UNCHANGED <<files, _conversations_cache, clock>>
       ELSE /\ files' = write_file(files, conversation_id,
                            renamed(read_file(files, conversation_id), new_title, t))
            /\ _conversations_cache' = CacheNone
            /\ clock' = t
            /\ ret' = [op |-> "rename", conversation_id |-> conversation_id,
                       new_title |-> new_title, raised |-> "", returned |-> TRUE]

-----------------------------------------------------------------------------
(* The store: a ChatHistoryManager on an empty directory *)


\* main.py: datetime.now().strftime("%H:%M"), the minute
strftime_HM(t) ==
    LET min == (t \div TicksPerSec) \div 60
    IN  <<"0", "0", ":", Digits[(min \div 10) + 1], Digits[(min % 10) + 1]>>

\* main.py lines 328-332, 383-387, 463-467: the message a new chat starts with
welcome(t) ==
    [role |-> "assistant", content |-> <<"H", "e", "l", "l", "o", "!">>,
     timestamp |-> strftime_HM(t)]

\* main.py lines 320-342: init_session_state
init_session_state(t) ==
    [current_conversation_id |-> None,
     messages                |-> <<welcome(t)>>,
     show_rename_ui          |-> FALSE,
     new_title               |-> <<>>]

\* the second instance is in no call of rename_conversation
NotRenaming == [pc |-> "idle"]

Init ==
    /\ files = <<>>
    /\ _conversations_cache = CacheNone
    /\ clock = 0
    /\ ret = NoCall
    /\ prev = summary(NoCall)
    /\ session_state = init_session_state(0)
    /\ renaming = NotRenaming

Times == 0..MaxClock

Next ==
    \/ \E messages \in MessageLists, conversation_id \in IdArgs, title \in TitleArgs,
          system_prompt \in SystemPromptArgs, t1, t2, t3 \in Times :
          save_conversation(messages, conversation_id, title, system_prompt, t1, t2, t3)
          /\ UNCHANGED <<session_state, renaming>>
    \/ \E conversation_id \in Ids : load_conversation(conversation_id)
          /\ UNCHANGED <<session_state, renaming>>
    \/ \E conversation_id \in Ids : delete_conversation(conversation_id)
          /\ UNCHANGED <<session_state, renaming>>
    \/ \E force_refresh \in BOOLEAN, order \in GlobOrders(files) :
          list_conversations(force_refresh, order)
          /\ UNCHANGED <<session_state, renaming>>
    \/ \E conversation_id \in Ids, new_title \in NewTitles, t \in Times :
          rename_conversation(conversation_id, new_title, t)
          /\ UNCHANGED <<session_state, renaming>>

Spec == Init /\ [][Next]_vars

-----------------------------------------------------------------------------
(* The store on a directory whose files can go bad: a file's content can
   become invalid JSON, and a file can lose its permissions *)

\* the content of a file is overwritten with text that is not JSON
corrupt_file(conversation_id) ==
    /\ prev' = summary(ret)
    /\ files' = [x \in DOMAIN files \cup {conversation_id} |->
                    IF x = conversation_id THEN InvalidJson ELSE files[x]]
    /\ ret' = [op |-> "corrupt", conversation_id |-> conversation_id, raised |-> ""]
    /\ UNCHANGED <<_conversations_cache, clock>>

\* an existing file loses its read and write permissions
deny_file(conversation_id) ==
    /\ prev' = summary(ret)
    /\ conversation_id \in DOMAIN files
    /\ files' = [files EXCEPT ![conversation_id] = Denied]
    /\ ret' = [op |-> "deny", conversation_id |-> conversation_id, raised |-> ""]
    /\ UNCHANGED <<_conversations_cache, clock>>

NextFaults ==
    \/ \E messages \in {<<assistant, user_long>>}, conversation_id \in IdArgs, t1, t2, t3 \in Times :
          save_conversation(messages, conversation_id, None, NotPassed, t1, t2, t3)
          /\ UNCHANGED <<session_state, renaming>>
    \/ \E conversation_id \in Ids : load_conversation(conversation_id)
          /\ UNCHANGED <<session_state, renaming>>
    \/ \E conversation_id \in Ids : delete_conversation(conversation_id)
          /\ UNCHANGED <<session_state, renaming>>
    \/ \E force_refresh \in BOOLEAN, order \in GlobOrders(files) :
          list_conversations(force_refresh, order)
          /\ UNCHANGED <<session_state, renaming>>
    \/ \E conversation_id \in Ids, new_title \in NewTitles, t \in Times :
          rename_conversation(conversation_id, new_title, t)
          /\ UNCHANGED <<session_state, renaming>>
    \/ \E conversation_id \in Ids : corrupt_file(conversation_id)
          /\ UNCHANGED <<session_state, renaming>>
    \/ \E conversation_id \in Ids : deny_file(conversation_id)
          /\ UNCHANGED <<session_state, renaming>>

SpecFaults == Init /\ [][NextFaults]_vars

-----------------------------------------------------------------------------
(* The store on a disk that fills up: open(file_path, 'w') has truncated the
   file when a write of json.dump(data, f), or the flush at the end of the
   with block, ends with OSError (ENOSPC) *)

\* the file after open(file_path, 'w') succeeded and json.dump did not finish:
\* it holds a proper prefix of the text of an object, which json.load rejects
write_file_partly(fs, conversation_id, data) ==
    [x \in DOMAIN fs \cup {conversation_id} |->
        IF x = conversation_id THEN InvalidJson ELSE fs[x]]

\* save_conversation, lines 39-88, when the write of lines 80-82 ends with
\* OSError: lines 84-88 are not run
save_conversation_disk_full(messages, conversation_id, t1, t2, t3) ==
    LET cid  == new_conversation_id(conversation_id, t1)
        ttl  == derive_title(None, messages, cid)
        data == conversation_data(cid, ttl, t2, t3, messages)
    IN  /\ clock <= t1 /\ t1 <= t2 /\ t2 <= t3
        /\ (~Falsy(conversation_id) => t1 = clock)
        /\ write_error(files, cid) = ""
        /\ prev' = summary(ret)
        /\ clock' = t3
        /\ files' = write_file_partly(files, cid, data)
        /\ ret' = [op |-> "save", messages |-> messages,
                   conversation_id |-> conversation_id, title |-> None,
                   system_prompt |-> NotPassed,
                   cache_was_none |-> _conversations_cache.is_none,
                   raised |-> "OSError", returned |-> None, file |-> cid]
        /\ UNCHANGED _conversations_cache

\* rename_conversation, lines 173-198, when the write of lines 188-190 ends
\* with OSError: it is not FileNotFoundError, so it is not caught, and line
\* 193 is not run
rename_conversation_disk_full(conversation_id, new_title, t) ==
    /\ clock <= t
    /\ path_exists(files, conversation_id)
    /\ read_error(files, conversation_id) = ""
    /\ prev' = summary(ret)
    /\ clock' = t
    /\ files' = write_file_partly(files, conversation_id,
                    renamed(read_file(files, conversation_id), new_title, t))
    /\ ret' = [op |-> "rename", conversation_id |-> conversation_id,
               new_title |-> new_title, raised |-> "OSError",
               returned |-> FALSE, file |-> conversation_id]
    /\ UNCHANGED _conversations_cache

NextDiskFull ==
    \/ \E conversation_id \in IdArgs, t \in Times :
          save_conversation(<<assistant, user_long>>, conversation_id, None, NotPassed, t, t, t)
          /\ UNCHANGED <<session_state, renaming>>
    \/ \E conversation_id \in Ids : load_conversation(conversation_id)
          /\ UNCHANGED <<session_state, renaming>>
    \/ \E force_refresh \in BOOLEAN, order \in GlobOrders(files) :
          list_conversations(force_refresh, order)
          /\ UNCHANGED <<session_state, renaming>>
    \/ \E conversation_id \in Ids, new_title \in NewTitles, t \in Times :
          rename_conversation(conversation_id, new_title, t)
          /\ UNCHANGED <<session_state, renaming>>
    \/ \E conversation_id \in IdArgs, t \in Times :
          save_conversation_disk_full(<<assistant, user_long>>, conversation_id, t, t, t)
          /\ UNCHANGED <<session_state, renaming>>
    \/ \E conversation_id \in Ids, new_title \in NewTitles, t \in Times :
          rename_conversation_disk_full(conversation_id, new_title, t)
          /\ UNCHANGED <<session_state, renaming>>

SpecDiskFull == Init /\ [][NextDiskFull]_vars

-----------------------------------------------------------------------------
(* Two stores on one directory: a second ChatHistoryManager of the same process
   (each Streamlit session constructs its own) saves, deletes and renames.
   _conversations_cache is an attribute of the instance (line 29), so the calls
   of the second instance set its own cache and leave the cache of the first
   as it is.  No list is made on the second instance, so its cache, which only
   list reads, is not part of the state. *)

other_save_conversation(messages, conversation_id, t1, t2, t3) ==
    LET cid  == new_conversation_id(conversation_id, t1)
        ttl  == derive_title(None, messages, cid)
        data == conversation_data(cid, ttl, t2, t3, messages)
    IN  /\ clock <= t1 /\ t1 <= t2 /\ t2 <= t3
        /\ (~Falsy(conversation_id) => t1 = clock)
        /\ prev' = summary(ret)
        /\ clock' = t3
        /\ files' = write_file(files, cid, data)
        /\ ret' = [op |-> "other_save", conversation_id |-> conversation_id,
                   raised |-> "", returned |-> cid,
                   cache_was_none |-> _conversations_cache.is_none]
        /\ UNCHANGED _conversations_cache

other_delete_conversation(conversation_id) ==
    /\ prev' = summary(ret)
    /\ files' = IF path_exists(files, conversation_id)
                THEN remove_file(files, conversation_id) ELSE files
    /\ ret' = [op |-> "other_delete", conversation_id |-> conversation_id,
               raised |-> "", returned |-> path_exists(files, conversation_id),
               cache_was_none |-> _conversations_cache.is_none]
    /\ UNCHANGED <<_conversations_cache, clock>>

other_rename_conversation(conversation_id, new_title, t) ==
    /\ prev' = summary(ret)
    /\ clock <= t
    /\ (~path_exists(files, conversation_id) => t = clock)
    /\ clock' = t
    /\ files' = IF path_exists(files, conversation_id)
                THEN write_file(files, conversation_id,
                         renamed(read_file(files, conversation_id), new_title, t))
                ELSE files
    /\ ret' = [op |-> "other_rename", conversation_id |-> conversation_id,
               new_title |-> new_title, raised |-> "",
               returned |-> path_exists(files, conversation_id),
               cache_was_none |-> _conversations_cache.is_none]
    /\ UNCHANGED _conversations_cache

NextTwo ==
    \/ \E conversation_id \in IdArgs, t \in Times :
          save_conversation(<<assistant, user_long>>, conversation_id, None, NotPassed, t, t, t)
          /\ UNCHANGED <<session_state, renaming>>
    \/ \E conversation_id \in Ids : delete_conversation(conversation_id)
          /\ UNCHANGED <<session_state, renaming>>
    \/ \E force_refresh \in BOOLEAN, order \in GlobOrders(files) :
          list_conversations(force_refresh, order)
          /\ UNCHANGED <<session_state, renaming>>
    \/ \E conversation_id \in Ids, new_title \in NewTitles, t \in Times :
          rename_conversation(conversation_id, new_title, t)
          /\ UNCHANGED <<session_state, renaming>>
    \/ \E conversation_id \in IdArgs, t \in Times :
          other_save_conversation(<<assistant, user_long>>, conversation_id, t, t, t)
          /\ UNCHANGED <<session_state, renaming>>
    \/ \E conversation_id \in Ids : other_delete_conversation(conversation_id)
          /\ UNCHANGED <<session_state, renaming>>
    \/ \E conversation_id \in Ids, new_title \in NewTitles, t \in Times :
          other_rename_conversation(conversation_id, new_title, t)
          /\ UNCHANGED <<session_state, renaming>>

SpecTwo == Init /\ [][NextTwo]_vars

-----------------------------------------------------------------------------
(* A rename on the second instance that runs while the first instance saves.
   Each Streamlit session runs its script in a thread of its own, and the
   directory has no lock, so between the load of line 183 and the write of
   lines 188-190 of one instance's rename_conversation a call of the other
   instance can run.  save_conversation reads no file: its one step on the
   directory is its write. *)

\* rename_conversation, line 183: conversation = self.load_conversation(...);
\* when the file is not there the call ends here and returns False
other_rename_read(conversation_id, new_title) ==
    /\ renaming.pc = "idle"
    /\ IF ~path_exists(files, conversation_id)
       THEN /\ prev' = summary(ret)
            /\ ret' = [op |-> "other_rename", conversation_id |-> conversation_id,
                       new_title |-> new_title, raised |-> "", returned |-> FALSE,
                       cache_was_none |-> _conversations_cache.is_none]
            /\ UNCHANGED renaming
       ELSE /\ renaming' = [pc |-> "loaded", conversation_id |-> conversation_id,
                            new_title |-> new_title,
                            conversation |-> read_file(files, conversation_id)]
            /\ UNCHANGED <<ret, prev>>
    /\ UNCHANGED <<files, _conversations_cache, clock>>

\* rename_conversation, lines 184-196: the title and updated are set on the
\* conversation that was loaded, and the file is written
other_rename_write(t) ==
    /\ renaming.pc = "loaded"
    /\ clock <= t
    /\ clock' = t
    /\ prev' = summary(ret)
    /\ files' = write_file(files, renaming.conversation_id,
                    renamed(renaming.conversation, renaming.new_title, t))
    /\ ret' = [op |-> "other_rename", conversation_id |-> renaming.conversation_id,
               new_title |-> renaming.new_title, raised |-> "", returned |-> TRUE,
               cache_was_none |-> _conversations_cache.is_none]
    /\ renaming' = NotRenaming
    /\ UNCHANGED _conversations_cache

NextRace ==
    \/ \E messages \in MessageLists, conversation_id \in IdArgs, t \in Times :
          save_conversation(messages, conversation_id, None, NotPassed, t, t, t)
          /\ UNCHANGED <<session_state, renaming>>
    \/ \E conversation_id \in Ids : load_conversation(conversation_id)
          /\ UNCHANGED <<session_state, renaming>>
    \/ \E conversation_id \in Ids, new_title \in NewTitles :
          other_rename_read(conversation_id, new_title)
          /\ UNCHANGED session_state
    \/ \E t \in Times : other_rename_write(t)
          /\ UNCHANGED session_state

SpecRace == Init /\ [][NextRace]_vars

-----------------------------------------------------------------------------
(* Title derivation: one save without id and title, on an empty directory, of
   message lists that vary the roles and the words of the contents *)

\* the longest message list saved
MaxMessages == 2

TitleRoles == {"user", "assistant", "system"}

TitleContents ==
    {<<>>,
     <<"h", "i">>,
     <<" ", "a", "\t", "b", " ">>,
     <<"a", " ", "b", " ", "c", " ", "d", " ", "e">>,
     <<"a", " ", "b", " ", " ", "c", " ", "d", " ", "e", " ", "f">>}

TitleMessages == [role : TitleRoles, content : TitleContents]

TitleMessageLists ==
    UNION {[1..n -> TitleMessages] : n \in 0..MaxMessages}

NextTitle ==
    \E messages \in TitleMessageLists, t \in Times :
        /\ files = <<>>
        /\ save_conversation(messages, None, None, NotPassed, t, t, t)
        /\ UNCHANGED <<session_state, renaming>>

SpecTitle == Init /\ [][NextTitle]_vars

-----------------------------------------------------------------------------
(* chat/message.py: Message.  A Message is the record of its four attributes;
   a dict is a function on its keys.  The object a method is called on is the
   self (or the value returned) of the call before it. *)

\* datetime.now().strftime("%H:%M:%S"): the seconds, behind fixed hours and minutes
strftime_HMS(t) == <<"0", "0", ":", "0", "0", ":">> \o strftime(t)

\* lines 22-25 (metadata is a dict here; the default None gives the empty dict
\* as the empty dict itself does)
Message(role, content, timestamp, metadata, now) ==
    [role      |-> role,
     content   |-> content,
     timestamp |-> IF Falsy(timestamp) THEN strftime_HMS(now) ELSE timestamp,
     metadata  |-> IF DOMAIN metadata = {} THEN <<>> ELSE metadata]

\* line 44
standard_fields == {"role", "content", "timestamp"}

\* lines 29-34: in a dict display a later key replaces an earlier equal key, so
\* the entries of **self.metadata win over the three standard ones
Message_to_dict(self) ==
    [k \in standard_fields \cup DOMAIN self.metadata |->
        IF k \in DOMAIN self.metadata THEN self.metadata[k]
        ELSE IF k = "role" THEN self.role
        ELSE IF k = "content" THEN self.content
        ELSE self.timestamp]

\* lines 39-47
Message_from_dict(data, now) ==
    Message(DictGet(data, "role", ""),
            DictGet(data, "content", <<>>),
            DictGet(data, "timestamp", None),
            [k \in DOMAIN data \ standard_fields |-> data[k]],
            now)

\* the arguments of the constructor
MessageRoles == {"user", "assistant"}
MessageContents == {<<>>, <<"h", "i">>}
TimestampArgs == {None, <<"1", "0", ":", "0", "0">>}
MetadataKeys == {"role", "content", "timestamp", "extra_field"}
MetadataValue(k) ==
    IF k = "role" THEN "system"
    ELSE IF k = "content" THEN <<"m">>
    ELSE IF k = "timestamp" THEN <<"0", "9", ":", "0", "0">>
    ELSE <<"v", "a", "l", "u", "e">>
MetadataArgs == {[k \in K |-> MetadataValue(k)] : K \in SUBSET MetadataKeys}

\* Message(role, content, timestamp, metadata)
new_Message(role, content, timestamp, metadata, t) ==
    /\ clock <= t
    /\ (~Falsy(timestamp) => t = clock)
    /\ clock' = t
    /\ prev' = summary(ret)
    /\ ret' = [op |-> "Message",
               returned |-> Message(role, content, timestamp, metadata, t)]
    /\ UNCHANGED <<files, _conversations_cache>>

\* x.to_dict() of the Message x the last call returned
call_Message_to_dict ==
    /\ ret.op \in {"Message", "Message.from_dict"}
    /\ prev' = summary(ret)
    /\ ret' = [op |-> "Message.to_dict", self |-> ret.returned,
               returned |-> Message_to_dict(ret.returned)]
    /\ UNCHANGED <<files, _conversations_cache, clock>>

\* Message.from_dict(d) of the dict d the last call returned
call_Message_from_dict(t) ==
    /\ ret.op = "Message.to_dict"
    /\ clock <= t
    /\ ("timestamp" \in DOMAIN ret.returned => t = clock)
    /\ clock' = t
    /\ prev' = summary(ret)
    /\ ret' = [op |-> "Message.from_dict", data |-> ret.returned,
               source |-> "to_dict", raised |-> "",
               returned |-> Message_from_dict(ret.returned, t)]
    /\ UNCHANGED <<files, _conversations_cache>>

\* a JSON null, which json.load gives as None
IsNull(v) == Len(v) = 1 /\ v = None

\* the message records deserialized: each of the keys is there with a value,
\* there with null, or missing
MessageRecordValue(k) ==
    IF k = "role" THEN "user"
    ELSE IF k = "content" THEN <<"h", "i">>
    ELSE IF k = "timestamp" THEN <<"1", "0", ":", "0", "0">>
    ELSE MetadataValue(k)
MessageRecord(K, N) ==
    [k \in K |-> IF k \in N THEN None ELSE MessageRecordValue(k)]

\* Message.from_dict(data) of a record read from elsewhere: none of its
\* statements raises on a dict, whatever keys are missing or null
call_Message_from_dict_record(data, t) ==
    /\ clock <= t
    /\ (~Falsy(DictGet(data, "timestamp", None)) => t = clock)
    /\ clock' = t
    /\ prev' = summary(ret)
    /\ ret' = [op |-> "Message.from_dict", data |-> data,
               source |-> "record", raised |-> "",
               returned |-> Message_from_dict(data, t)]
    /\ UNCHANGED <<files, _conversations_cache>>

NextMessage ==
    \/ \E role \in MessageRoles, content \in MessageContents,
          timestamp \in TimestampArgs, metadata \in MetadataArgs, t \in Times :
          new_Message(role, content, timestamp, metadata, t)
          /\ UNCHANGED <<session_state, renaming>>
    \/ call_Message_to_dict
          /\ UNCHANGED <<session_state, renaming>>
    \/ \E t \in Times : call_Message_from_dict(t)
          /\ UNCHANGED <<session_state, renaming>>
    \/ \E K \in SUBSET (standard_fields \cup {"extra_field"}),
          N \in SUBSET standard_fields, t \in Times :
          call_Message_from_dict_record(MessageRecord(K, N), t)
          /\ UNCHANGED <<session_state, renaming>>

SpecMessage == Init /\ [][NextMessage]_vars

-----------------------------------------------------------------------------
(* chat/message.py: Conversation *)

\* lines 83-88 (messages is a list here; the default None gives the empty list)
Conversation(messages, id, title, system_prompt, now) ==
    [messages      |-> messages,
     id            |-> id,
     title         |-> title,
     system_prompt |-> system_prompt,
     created_at    |-> isoformat(now),
     updated_at    |-> isoformat(now)]

\* lines 92-93
add_message(self, message, now) ==
    [self EXCEPT !.messages = Append(@, message), !.updated_at = isoformat(now)]

\* line 101
set_system_prompt(self, system_prompt) ==
    [self EXCEPT !.system_prompt = system_prompt]

\* lines 117-132
Conversation_from_dict(data, now) ==
    LET message_dicts == DictGet(data, "messages", <<>>)
        messages == [i \in 1..Len(message_dicts) |->
                        Message_from_dict(message_dicts[i], now)]
        conversation == Conversation(messages, DictGet(data, "id", None),
                                     DictGet(data, "title", None),
                                     DictGet(data, "system_prompt", None), now)
    IN  [conversation EXCEPT
            !.created_at = DictGet(data, "created", conversation.created_at),
            !.updated_at = DictGet(data, "updated", conversation.updated_at)]

\* (mutant) the system entry is put after the messages
get_api_messages_system_last(self) ==
    [i \in 1..Len(self.messages) |->
        [role |-> self.messages[i].role, content |-> self.messages[i].content]]
    \o (IF ~Falsy(self.system_prompt)
        THEN <<[role |-> "system", content |-> self.system_prompt]>>
        ELSE <<>>)

\* lines 140-147: `if self.system_prompt` holds for a non-empty string
get_api_messages(self) ==
    (IF ~Falsy(self.system_prompt)
     THEN <<[role |-> "system", content |-> self.system_prompt]>>
     ELSE <<>>)
    \o [i \in 1..Len(self.messages) |->
           [role |-> self.messages[i].role, content |-> self.messages[i].content]]

\* the messages added and the message records deserialized
hello == Message("user", <<"h", "i">>, <<"1", "0", ":", "0", "0">>, <<>>, 0)
reply == Message("assistant", <<"o", "k">>, <<"1", "0", ":", "0", "1">>, <<>>, 0)
noted == Message("user", <<"w", "h", "y">>, <<"1", "0", ":", "0", "2">>,
                 [k \in {"extra_field"} |-> MetadataValue(k)], 0)
ConversationMessages == {hello, reply, noted}

\* the records deserialized: written at an earlier time (created <= updated <=
\* the clock); each of the keys created, updated, messages is there with a
\* value, there with null, or missing
ConversationRecords ==
    {[k \in K |-> IF k \in N THEN None
                  ELSE IF k = "created" THEN isoformat(tc)
                  ELSE IF k = "updated" THEN isoformat(tu)
                  ELSE IF k = "messages"
                       THEN <<Message_to_dict(hello), Message_to_dict(noted)>>
                  ELSE <<"c", "1">>] :
        K \in {{"id"} \cup J : J \in SUBSET {"created", "updated", "messages"}},
        N \in SUBSET {"created", "updated", "messages"},
        tc \in Times, tu \in Times}

\* line 123: the comprehension iterates data.get("messages", []), and a null
\* there is None, which is not iterable
Conversation_from_dict_raises(data) ==
    IF "messages" \in DOMAIN data /\ IsNull(data["messages"])
    THEN "TypeError" ELSE ""

\* the system_prompt argument of set_system_prompt: a text or the empty string
SystemPrompts == {<<>>, <<"S">>}

\* the methods are called on the Conversation the last call left
HasConversation ==
    \/ ret.op \in {"Conversation", "add_message", "set_system_prompt",
                   "get_api_messages"}
    \/ ret.op = "Conversation.from_dict" /\ ret.raised = ""

\* Conversation()
new_Conversation(t) ==
    /\ clock <= t
    /\ clock' = t
    /\ prev' = summary(ret)
    /\ ret' = [op |-> "Conversation",
               self |-> Conversation(<<>>, None, None, None, t)]
    /\ UNCHANGED <<files, _conversations_cache>>

call_add_message(message, t) ==
    /\ HasConversation
    /\ Len(ret.self.messages) < MaxMessages
    /\ clock <= t
    /\ clock' = t
    /\ prev' = summary(ret)
    /\ ret' = [op |-> "add_message", message |-> message,
               self |-> add_message(ret.self, message, t)]
    /\ UNCHANGED <<files, _conversations_cache>>

call_set_system_prompt(system_prompt) ==
    /\ HasConversation
    /\ prev' = summary(ret)
    /\ ret' = [op |-> "set_system_prompt", system_prompt |-> system_prompt,
               self |-> set_system_prompt(ret.self, system_prompt)]
    /\ UNCHANGED <<files, _conversations_cache, clock>>

call_get_api_messages ==
    /\ HasConversation
    /\ prev' = summary(ret)
    /\ ret' = [op |-> "get_api_messages", self |-> ret.self,
               returned |-> get_api_messages(ret.self)]
    /\ UNCHANGED <<files, _conversations_cache, clock>>

\* the record has a timestamp under the key
HasTime(data, k) == k \in DOMAIN data /\ ~IsNull(data[k])

call_Conversation_from_dict(data, t) ==
    /\ clock <= t
    /\ clock' = t
    /\ HasTime(data, "created")
          => StrLess(data["created"], isoformat(clock))
             \/ data["created"] = isoformat(clock)
    /\ HasTime(data, "updated")
          => StrLess(data["updated"], isoformat(clock))
             \/ data["updated"] = isoformat(clock)
    /\ (HasTime(data, "created") /\ HasTime(data, "updated"))
          => ~StrLess(data["updated"], data["created"])
    /\ prev' = summary(ret)
    /\ IF Conversation_from_dict_raises(data) # ""
       THEN ret' = [op |-> "Conversation.from_dict", data |-> data,
                    raised |-> Conversation_from_dict_raises(data)]
       ELSE ret' = [op |-> "Conversation.from_dict", data |-> data,
                    raised |-> "",
                    self |-> Conversation_from_dict(data, t)]
    /\ UNCHANGED <<files, _conversations_cache>>

NextConversation ==
    \/ \E t \in Times : new_Conversation(t)
          /\ UNCHANGED <<session_state, renaming>>
    \/ \E message \in ConversationMessages, t \in Times : call_add_message(message, t)
          /\ UNCHANGED <<session_state, renaming>>
    \/ \E system_prompt \in SystemPrompts : call_set_system_prompt(system_prompt)
          /\ UNCHANGED <<session_state, renaming>>
    \/ call_get_api_messages
          /\ UNCHANGED <<session_state, renaming>>
    \/ \E data \in ConversationRecords, t \in Times : call_Conversation_from_dict(data, t)
          /\ UNCHANGED <<session_state, renaming>>

SpecConversation == Init /\ [][NextConversation]_vars

-----------------------------------------------------------------------------
(* chat/client.py: ChatClient.  The API is outside the program: a call of
   client.chat.completions.create either raises or returns a response with a
   list of choices. *)

\* lines 41-47: the OpenAI client of a ChatClient, None without an API key
ChatClient(api_key, env_key) ==
    LET key == IF Falsy(api_key) THEN env_key ELSE api_key
    IN  [api_key |-> key,
         client  |-> IF Falsy(key) THEN None ELSE <<"OpenAI", key>>]

\* line 68
NotInitialized ==
    <<"E", "r", "r", "o", "r", ":", " ", "n", "o", " ", "c", "l", "i", "e", "n", "t">>

\* line 81: f"Error: {str(e)}"
ErrorText(e) == <<"E", "r", "r", "o", "r", ":", " ">> \o e

\* the most choices in a response
MaxChoices == 2

\* what the API does with a request: raise an exception with a message, or
\* answer with choices
ApiOutcomes ==
    {[raises |-> TRUE, e |-> e, choices |-> <<>>] : e \in {<<>>, <<"4", "2", "9">>}}
    \cup {[raises |-> FALSE, e |-> <<>>, choices |-> c] :
             c \in UNION {[1..n -> {<<"a">>, <<"b">>}] : n \in 0..MaxChoices}}

\* lines 71-77: the try block; choices[0] of an empty list raises IndexError
completion_attempt(outcome) ==
    IF outcome.raises THEN [raised |-> TRUE, e |-> outcome.e, text |-> <<>>]
    ELSE IF outcome.choices = <<>>
         THEN [raised |-> TRUE, e |-> <<"i", "n", "d", "e", "x">>, text |-> <<>>]
         ELSE [raised |-> FALSE, e |-> <<>>, text |-> outcome.choices[1]]

\* (mutant) the exception of the try block is not caught
get_completion_uncaught(self, outcome) ==
    IF self.client = None
    THEN [raised |-> "", returned |-> NotInitialized, api_called |-> FALSE]
    ELSE LET try == completion_attempt(outcome)
         IN  IF try.raised
             THEN [raised |-> "Exception", returned |-> None, api_called |-> TRUE]
             ELSE [raised |-> "", returned |-> try.text, api_called |-> TRUE]

\* lines 66-81
get_completion(self, outcome) ==
    IF self.client = None
    THEN [raised |-> "", returned |-> NotInitialized, api_called |-> FALSE]
    ELSE LET try == completion_attempt(outcome)
         IN  IF try.raised
             THEN [raised |-> "", returned |-> ErrorText(try.e), api_called |-> TRUE]
             ELSE [raised |-> "", returned |-> try.text, api_called |-> TRUE]

\* the api_key argument and the OPENAI_API_KEY of the environment
ApiKeys == {None, <<>>, <<"k">>}
EnvKeys == {None, <<>>, <<"e">>}

\* the messages argument
ApiMessageLists ==
    {<<>>, <<[role |-> "user", content |-> <<"h", "i">>]>>}

new_ChatClient(api_key, env_key) ==
    /\ prev' = summary(ret)
    /\ ret' = [op |-> "ChatClient", api_key |-> api_key, env_key |-> env_key,
               self |-> ChatClient(api_key, env_key)]
    /\ UNCHANGED <<files, _conversations_cache, clock>>

call_get_completion(messages, outcome) ==
    /\ ret.op \in {"ChatClient", "get_completion"}
    /\ (ret.self.client = None => outcome = CHOOSE o \in ApiOutcomes : TRUE)
    /\ prev' = summary(ret)
    /\ ret' = [op |-> "get_completion", self |-> ret.self, messages |-> messages,
               outcome |-> outcome]
              @@ get_completion(ret.self, outcome)
    /\ UNCHANGED <<files, _conversations_cache, clock>>

NextClient ==
    \/ \E api_key \in ApiKeys, env_key \in EnvKeys : new_ChatClient(api_key, env_key)
          /\ UNCHANGED <<session_state, renaming>>
    \/ \E messages \in ApiMessageLists, outcome \in ApiOutcomes :
          call_get_completion(messages, outcome)
          /\ UNCHANGED <<session_state, renaming>>

SpecClient == Init /\ [][NextClient]_vars

-----------------------------------------------------------------------------
(* main.py: the chat session.  One step is one run of the script on one widget
   event, together with the run that st.rerun() starts: that run calls
   list_conversations() (line 392) on the session's ChatHistoryManager, so the
   step ends with the cache holding a scan of the directory.  The buttons of
   the sidebar are those of the listing, which on a single manager is the
   listing of the files.  The properties of the session look at one step, so
   prev is not kept. *)

\* the most chat turns (a prompt and its reply) added to one message list
MaxTurns == 1

\* what the user types into the chat input, and what get_chat_response returns
Prompts == {<<"q", "1">>, <<"q", "2">>}
response == <<"r">>

\* what the user types into the "New title" input
TitleInputs == {<<>>, <<" ">>, <<"N">>}

\* the cache after the run that st.rerun() starts
rerun(fs, order) == CacheOf(scan(fs, order))

\* lines 345-360, with save_conversation (chat_history.py lines 54-82) as the
\* session calls it: no title, conversation_id = current_conversation_id
saved_files(fs, ss, t) ==
    LET cid  == new_conversation_id(ss.current_conversation_id, t)
        ttl  == derive_title(None, ss.messages, cid)
        data == conversation_data(cid, ttl, t, t, ss.messages)
    IN  IF ss.messages = <<>> THEN fs ELSE write_file(fs, cid, data)

saved_session(ss, t) ==
    IF ss.messages = <<>> THEN ss
    ELSE [ss EXCEPT !.current_conversation_id =
                        new_conversation_id(ss.current_conversation_id, t)]

\* lines 527-563: a prompt is typed; the prompt and the reply are appended and
\* the conversation is saved
chat_input(prompt, t) ==
    LET user_message == [role |-> "user", content |-> prompt,
                         timestamp |-> strftime_HM(t)]
        response_message == [role |-> "assistant", content |-> response,
                             timestamp |-> strftime_HM(t)]
        ss == [session_state EXCEPT
                  !.messages = @ \o <<user_message, response_message>>]
    IN  /\ Len(session_state.messages) < 1 + 2 * MaxTurns
        /\ clock <= t
        /\ (~Falsy(ss.current_conversation_id) => t = clock)
        /\ clock' = t
        /\ files' = saved_files(files, ss, t)
        /\ session_state' = saved_session(ss, t)
        /\ \E order \in GlobOrders(files') :
              _conversations_cache' = rerun(files', order)
        /\ UNCHANGED prev
        /\ ret' = [op |-> "chat_input", prompt |-> prompt,
                   conversation_id |-> session_state.current_conversation_id,
                   returned |-> session_state'.current_conversation_id]

\* lines 566-568: the Save Chat button; the script is not run again
save_chat(t) ==
    /\ clock <= t
    /\ (~Falsy(session_state.current_conversation_id) => t = clock)
    /\ clock' = t
    /\ files' = saved_files(files, session_state, t)
    /\ session_state' = saved_session(session_state, t)
    /\ _conversations_cache' =
          IF session_state.messages = <<>> THEN _conversations_cache
          ELSE cache_after_save(_conversations_cache)
    /\ UNCHANGED prev
    /\ ret' = [op |-> "save_chat",
               conversation_id |-> session_state.current_conversation_id,
               returned |-> session_state'.current_conversation_id]

\* lines 382-389: the New Conversation button
new_conversation(t) ==
    /\ clock <= t
    /\ clock' = t
    /\ session_state' = [session_state EXCEPT
                            !.messages = <<welcome(t)>>,
                            !.current_conversation_id = None]
    /\ \E order \in GlobOrders(files) :
          _conversations_cache' = rerun(files, order)
    /\ UNCHANGED prev
    /\ ret' = [op |-> "new_conversation"]
    /\ UNCHANGED files

\* lines 447-449 and 363-372: the Load button of a listed conversation that is
\* not the active one
load_button(conversation_id) ==
    /\ conversation_id \in DOMAIN files
    /\ session_state.current_conversation_id # conversation_id
    /\ session_state' = [session_state EXCEPT
                            !.messages = DictGet(read_file(files, conversation_id),
                                                 "messages", <<>>),
                            !.current_conversation_id = conversation_id]
    /\ \E order \in GlobOrders(files) :
          _conversations_cache' = rerun(files, order)
    /\ UNCHANGED prev
    /\ ret' = [op |-> "load_button", conversation_id |-> conversation_id]
    /\ UNCHANGED <<files, clock>>

\* lines 452-456: the Rename button of a listed conversation
rename_button(conversation_id) ==
    /\ conversation_id \in DOMAIN files
    /\ session_state' = [session_state EXCEPT
                            !.show_rename_ui = TRUE,
                            !.new_title = conversation_meta(
                                read_file(files, conversation_id),
                                conversation_id).title,
                            !.current_conversation_id = conversation_id]
    /\ \E order \in GlobOrders(files) :
          _conversations_cache' = rerun(files, order)
    /\ UNCHANGED prev
    /\ ret' = [op |-> "rename_button", conversation_id |-> conversation_id]
    /\ UNCHANGED <<files, clock>>

\* line 395: the rename expander is drawn
rename_ui_shown ==
    session_state.show_rename_ui /\ ~Falsy(session_state.current_conversation_id)

\* lines 397-402: the user edits the "New title" input
rename_input(text) ==
    /\ rename_ui_shown
    /\ session_state' = [session_state EXCEPT !.new_title = text]
    /\ \E order \in GlobOrders(files) :
          _conversations_cache' = rerun(files, order)
    /\ UNCHANGED prev
    /\ ret' = [op |-> "rename_input", text |-> text]
    /\ UNCHANGED <<files, clock>>

\* lines 405-411, with rename_conversation (chat_history.py lines 183-198)
rename_save(t) ==
    LET conversation_id == session_state.current_conversation_id
        new_title == session_state.new_title
    IN  /\ rename_ui_shown
        /\ clock <= t
        /\ (~path_exists(files, conversation_id) => t = clock)
        /\ clock' = t
        /\ files' = IF path_exists(files, conversation_id)
                    THEN write_file(files, conversation_id,
                            renamed(read_file(files, conversation_id), new_title, t))
                    ELSE files
        /\ session_state' = [session_state EXCEPT !.show_rename_ui = FALSE]
        /\ \E order \in GlobOrders(files') :
              _conversations_cache' = rerun(files', order)
        /\ UNCHANGED prev
        /\ ret' = [op |-> "rename_save", conversation_id |-> conversation_id,
                   new_title |-> new_title,
                   returned |-> path_exists(files, conversation_id)]

\* lines 413-415
rename_cancel ==
    /\ rename_ui_shown
    /\ session_state' = [session_state EXCEPT !.show_rename_ui = FALSE]
    /\ \E order \in GlobOrders(files) :
          _conversations_cache' = rerun(files, order)
    /\ UNCHANGED prev
    /\ ret' = [op |-> "rename_cancel"]
    /\ UNCHANGED <<files, clock>>

\* lines 459-469: the Delete button of a listed conversation
delete_button(conversation_id, t) ==
    LET is_active == session_state.current_conversation_id = conversation_id
    IN  /\ conversation_id \in DOMAIN files
        /\ clock <= t
        /\ (~is_active => t = clock)
        /\ clock' = t
        /\ files' = remove_file(files, conversation_id)
        /\ session_state' = IF is_active
                            THEN [session_state EXCEPT
                                     !.messages = <<welcome(t)>>,
                                     !.current_conversation_id = None]
                            ELSE session_state
        /\ \E order \in GlobOrders(files') :
              _conversations_cache' = rerun(files', order)
        /\ UNCHANGED prev
        /\ ret' = [op |-> "delete_button", conversation_id |-> conversation_id]

NextSession ==
    \/ \E prompt \in Prompts, t \in Times : chat_input(prompt, t)
          /\ UNCHANGED renaming
    \/ \E t \in Times : save_chat(t)
          /\ UNCHANGED renaming
    \/ \E t \in Times : new_conversation(t)
          /\ UNCHANGED renaming
    \/ \E conversation_id \in Ids : load_button(conversation_id)
          /\ UNCHANGED renaming
    \/ \E conversation_id \in Ids : rename_button(conversation_id)
          /\ UNCHANGED renaming
    \/ \E text \in TitleInputs : rename_input(text)
          /\ UNCHANGED renaming
    \/ \E t \in Times : rename_save(t)
          /\ UNCHANGED renaming
    \/ rename_cancel
          /\ UNCHANGED renaming
    \/ \E conversation_id \in Ids, t \in Times :
          delete_button(conversation_id, t)
          /\ UNCHANGED renaming

SpecSession == Init /\ [][NextSession]_vars

-----------------------------------------------------------------------------
(* Properties.  A step with ret'.op = "x" is a call of x: ret is the call made
   before it, files and _conversations_cache are the store as the call found
   it, and the primed variables are the store as the call left it. *)

\* the record stored under an id, as load would read it
stored(fs, conversation_id) == read_file(fs, conversation_id)

\* timestamp a is that of a later clock value than timestamp b
Newer(a, b) ==
    \E ta \in Times : isoformat(ta) = a /\ \E tb \in 0..(ta - 1) : isoformat(tb) = b

\* C1: a load that directly follows save(M, title=T) of the id save returned
\* succeeds and returns title T and exactly the messages M, in order.
C1_SaveThenLoad ==
    [][(/\ ret.op = "save" /\ ret.raised = "" /\ ~Falsy(ret.title)
        /\ ret'.op = "load" /\ ret'.conversation_id = ret.returned)
       => (/\ ret'.raised = ""
           /\ ret'.returned.title = ret.title
           /\ Len(ret'.returned.messages) = Len(ret.messages)
           /\ \A i \in 1..Len(ret.messages) :
                 ret'.returned.messages[i] = ret.messages[i])]_vars

C1_Witness ==
    /\ prev.op = "save" /\ prev.ok
    /\ ret.op = "load" /\ ret.conversation_id = prev.id /\ ret.raised = ""
    /\ ret.returned.title = <<"T">>
    /\ Len(ret.returned.messages) = 2
    /\ ret.returned.messages[1] # ret.returned.messages[2]

\* C2: when a save found the cache populated, the list() without force_refresh
\* that follows it has an entry for the saved id with the title of the record
\* just saved and the number of messages saved.
C2_CacheCoherence ==
    [][(/\ ret.op = "save" /\ ret.raised = "" /\ ~ret.cache_was_none
        /\ ret'.op = "list" /\ ~ret'.force_refresh)
       => \E i \in DOMAIN ret'.returned :
             /\ ret'.returned[i].id = ret.returned
             /\ ret'.returned[i].title = stored(files, ret.returned).title
             /\ ret'.returned[i].message_count = Len(ret.messages)]_vars

C2_Witness ==
    /\ prev.op = "save" /\ prev.ok /\ ~prev.cache_was_none
    /\ ret.op = "list" /\ ~ret.force_refresh
    /\ Len(ret.returned) = 2
    /\ \E i \in DOMAIN ret.returned :
          ret.returned[i].id = prev.id /\ ret.returned[i].message_count = 2

\* C3: delete(x) returns true and removes the record when x has one and false
\* when it has none, never raising; a delete(x) right after a successful
\* delete(x) returns false and a load(x) right after it raises NotFound.
C3_Delete ==
    /\ [][ret'.op = "delete"
          => (/\ ret'.raised = ""
              /\ (ret'.conversation_id \in DOMAIN files
                    => ret'.returned /\ ret'.conversation_id \notin DOMAIN files')
              /\ (ret'.conversation_id \notin DOMAIN files => ~ret'.returned)
              /\ ((ret.op = "delete" /\ ret.returned
                   /\ ret.conversation_id = ret'.conversation_id)
                    => ~ret'.returned))]_vars
    /\ [][(/\ ret.op = "delete" /\ ret.returned
           /\ ret'.op = "load" /\ ret'.conversation_id = ret.conversation_id)
          => ret'.raised = "FileNotFoundError"]_vars

C3_Witness ==
    /\ prev.op = "delete" /\ prev.ok
    /\ ret.op = "delete" /\ ret.conversation_id = prev.id /\ ~ret.returned
    /\ files # <<>>

\* C4: load of an id without a record raises NotFound, load of an id with one
\* does not, and no load changes the cache or any stored record.
C4_Load ==
    [][ret'.op = "load"
       => (/\ files' = files
           /\ _conversations_cache' = _conversations_cache
           /\ (ret'.conversation_id \notin DOMAIN files
                 => ret'.raised = "FileNotFoundError")
           /\ (ret'.conversation_id \in DOMAIN files => ret'.raised = ""))]_vars

C4_Witness ==
    /\ ret.op = "load" /\ ret.raised = "FileNotFoundError"
    /\ ~_conversations_cache.is_none
    /\ Len(_conversations_cache.list) = 1

\* C5: rename of an id without a record returns false, raises nothing and
\* leaves the stored records as they were.
C5_RenameMissing ==
    [][(ret'.op = "rename" /\ ret'.conversation_id \notin DOMAIN files)
       => (~ret'.returned /\ ret'.raised = "" /\ files' = files)]_vars

C5_Witness ==
    /\ ret.op = "rename" /\ ~ret.returned
    /\ ret.conversation_id \notin DOMAIN files
    /\ files # <<>>

\* C6: rename(X, T) of an existing record returns true, stores title T and the
\* current time as updated, drops the cache, and a load(X) right after it
\* returns title T.
C6_Rename ==
    /\ [][(ret'.op = "rename" /\ ret'.conversation_id \in DOMAIN files)
          => (/\ ret'.returned
              /\ ret'.conversation_id \in DOMAIN files'
              /\ stored(files', ret'.conversation_id).title = ret'.new_title
              /\ stored(files', ret'.conversation_id).updated = isoformat(clock')
              /\ _conversations_cache'.is_none)]_vars
    /\ [][(/\ ret.op = "rename" /\ ret.returned
           /\ ret'.op = "load" /\ ret'.conversation_id = ret.conversation_id)
          => (ret'.raised = "" /\ ret'.returned.title = ret.new_title)]_vars

C6_Witness ==
    /\ prev.op = "rename" /\ prev.ok
    /\ ret.op = "load" /\ ret.conversation_id = prev.id /\ ret.raised = ""
    /\ ret.returned.title = <<"N">>
    /\ Newer(ret.returned.updated, ret.returned.created)

\* C7: a save with an explicit id that already has a record keeps the created
\* timestamp of that record and sets updated to now; created is a current
\* time only when the id is new.
C7_CreatedPreserved ==
    [][(ret'.op = "save" /\ ret'.raised = "" /\ ~Falsy(ret'.conversation_id))
       => (/\ stored(files', ret'.returned).updated = isoformat(clock')
           /\ IF ret'.conversation_id \in DOMAIN files
              THEN stored(files', ret'.returned).created
                       = stored(files, ret'.returned).created
              ELSE \E t \in clock..clock' :
                       stored(files', ret'.returned).created = isoformat(t))]_vars

\* C8: a save without a conversation_id returns an id that no record had
\* before the call.
C8_FreshId ==
    [][(ret'.op = "save" /\ ret'.raised = "" /\ Falsy(ret'.conversation_id))
       => ret'.returned \notin DOMAIN files]_vars

\* C9: when the stored records have pairwise distinct created timestamps,
\* list() returns one entry per record, each before every entry created
\* earlier; and a save leaves no other record with a later created timestamp.
DistinctCreated(fs) ==
    \A x, y \in DOMAIN fs : x # y => stored(fs, x).created # stored(fs, y).created

C10_SystemPromptStored ==
    (ret.op = "save" /\ ret.system_prompt # NotPassed)
       => (/\ ret.raised = ""
           /\ ret.returned \in DOMAIN files
           /\ DictGet(stored(files, ret.returned), "system_prompt", None)
                 = ret.system_prompt)

\* the messages hold one of role user
HasUser(messages) == \E i \in DOMAIN messages : messages[i].role = "user"

\* the content of the first message of role user
FirstUserContent(messages) ==
    messages[CHOOSE i \in DOMAIN messages :
                /\ messages[i].role = "user"
                /\ \A j \in 1..(i - 1) : messages[j].role # "user"].content

Ellipsis == <<".", ".", ".">>

\* the sum of the lengths of the first k words
RECURSIVE WordsLen(_, _)
WordsLen(words, k) == IF k = 0 THEN 0 ELSE Len(words[k]) + WordsLen(words, k - 1)

\* C11: a save without title of messages that hold a user message stores as
\* title the first five words of the first user message joined by single
\* spaces, followed by "..." exactly when that message has more than five.
C11_DerivedTitle ==
    (ret.op = "save" /\ ret.raised = "" /\ ret.title = None /\ HasUser(ret.messages))
       => LET title == stored(files, ret.returned).title
              words == Split(FirstUserContent(ret.messages))
              k     == Min(5, Len(words))
              base  == IF Len(words) > 5
                       THEN SubSeq(title, 1, Len(title) - 3)
                       ELSE title
          IN  /\ title # None
              /\ Len(words) > 5
                    => /\ Len(title) >= 3
                       /\ SubSeq(title, Len(title) - 2, Len(title)) = Ellipsis
              /\ Split(base) = SubSeq(words, 1, k)
              /\ Len(base) = WordsLen(words, k) + (IF k = 0 THEN 0 ELSE k - 1)
              /\ \A i \in DOMAIN base : IsSpace(base[i]) => base[i] = " "

C11_Witness ==
    /\ ret.op = "save" /\ ret.raised = "" /\ ret.title = None
    /\ Len(ret.messages) = 2
    /\ ret.messages[1].role = "assistant"
    /\ ret.messages[2].role = "user"
    /\ Len(Split(ret.messages[2].content)) = 6
    /\ stored(files, ret.returned).title
          = <<"a", " ", "b", " ", "c", " ", "d", " ", "e", ".", ".", ".">>

\* C12: a save without title of messages that hold no user message, the empty
\* list included, stores the title "Conversation {id}", never an absent one.
C12_FallbackTitle ==
    (ret.op = "save" /\ ret.raised = "" /\ ret.title = None /\ ~HasUser(ret.messages))
       => /\ stored(files, ret.returned).title # None
          /\ stored(files, ret.returned).title
                = <<"C", "o", "n", "v", "e", "r", "s", "a", "t", "i", "o", "n", " ">>
                  \o ret.returned

\* C13: a save with an explicit id returns that id and replaces the record
\* stored under it: afterwards the id has one record, whose messages are those
\* passed and whose title is the one passed or the one derived from them; no
\* other id gains or loses a record.
C13_SaveReplaces ==
    [][(ret'.op = "save" /\ ret'.raised = "" /\ ~Falsy(ret'.conversation_id))
       => (/\ ret'.returned = ret'.conversation_id
           /\ DOMAIN files' = DOMAIN files \cup {ret'.conversation_id}
           /\ stored(files', ret'.returned).messages = ret'.messages
           /\ stored(files', ret'.returned).title
                 = IF Falsy(ret'.title)
                   THEN derive_title(None, ret'.messages, ret'.returned)
                   ELSE ret'.title)]_vars

C13_Witness ==
    /\ prev.op = "save" /\ prev.ok
    /\ ret.op = "save" /\ ret.raised = "" /\ ret.conversation_id = prev.id
    /\ ret.messages = <<>> /\ ret.title = <<"T">>
    /\ stored(files, ret.returned).messages = <<>>
    /\ Cardinality(DOMAIN files) = 2

\* C14: every stored record is kept under the id written inside it.
C14_KeyIsId ==
    \A x \in DOMAIN files : stored(files, x).id = x

C14_Witness ==
    /\ prev.op = "delete" /\ prev.ok
    /\ ret.op = "rename" /\ ret.returned
    /\ stored(files, ret.conversation_id).id = ret.conversation_id
    /\ stored(files, ret.conversation_id).title = <<"N">>

\* the ids whose file can be opened and holds a record
Parsable(fs) == {x \in DOMAIN fs : fs[x] # InvalidJson /\ fs[x] # Denied}

\* this step is a list() that scans the directory
IsScan == ret'.op = "list" /\ (_conversations_cache.is_none \/ ret'.force_refresh)

\* C16: a list() that scans the directory returns without raising, and its
\* result has exactly one entry for every record that can be parsed, whatever
\* files beside them cannot.
C16_ScanSkipsCorrupt ==
    [][IsScan
       => (/\ ret'.raised = ""
           /\ Len(ret'.returned) = Cardinality(Parsable(files))
           /\ \A x \in Parsable(files) :
                 \E i \in DOMAIN ret'.returned :
                    /\ ret'.returned[i].id = x
                    /\ ret'.returned[i].title = stored(files, x).title
                    /\ ret'.returned[i].message_count
                          = Len(stored(files, x).messages))]_vars

C16_Witness ==
    /\ ret.op = "list" /\ ret.force_refresh /\ ret.raised = ""
    /\ prev.op = "corrupt"
    /\ Cardinality(DOMAIN files) = 2
    /\ Cardinality(Parsable(files)) = 1
    /\ \E x \in DOMAIN files : files[x] = InvalidJson
    /\ Len(ret.returned) = 1
    /\ ret.returned[1].id \in Parsable(files)

\* C17: a call in which the opening of a file fails for lack of permission
\* ends with an error: a load, rename or save of an id whose file is denied,
\* and a list() whose scan meets a denied file.
C17_IoFailurePropagates ==
    [][(\/ /\ ret'.op \in {"load", "rename", "save"}
           /\ ret'.conversation_id \in DOMAIN files
           /\ files[ret'.conversation_id] = Denied
        \/ /\ IsScan
           /\ \E x \in DOMAIN files : files[x] = Denied)
       => ret'.raised # ""]_vars

\* L is the listing of the records of fs: one entry per record, with the
\* record's metadata, newest created first
IsListingOf(L, fs) ==
    /\ Len(L) = Cardinality(DOMAIN fs)
    /\ \A x \in DOMAIN fs :
          \E i \in DOMAIN L :
             /\ L[i].id = x
             /\ L[i].title = stored(fs, x).title
             /\ L[i].created = stored(fs, x).created
             /\ L[i].updated = stored(fs, x).updated
             /\ L[i].message_count = Len(stored(fs, x).messages)
    /\ \A i, j \in DOMAIN L : i < j => ~StrLess(L[i].created, L[j].created)

\* the last call was a mutation that went through, on this instance
OwnMutation ==
    \/ ret.op = "save" /\ ret.raised = ""
    \/ ret.op \in {"delete", "rename"} /\ ret.returned

\* the last call was a mutation that went through, on the second instance
OtherMutation ==
    \/ ret.op = "other_save"
    \/ ret.op \in {"other_delete", "other_rename"} /\ ret.returned

\* C15: a list() on the first instance that directly follows a save, a
\* successful delete or a successful rename, made through the first or through
\* the second instance, returns the listing of the records as the mutation
\* left them, not a listing cached before it.
C15_MutationInvalidates ==
    [][((OwnMutation \/ OtherMutation) /\ ret'.op = "list")
       => IsListingOf(ret'.returned, files)]_vars

\* C18: list(force_refresh=True) returns the listing of the records now in the
\* directory, whatever the cache holds, and the cache becomes that listing;
\* list() without force_refresh on a populated cache returns the cached listing
\* and leaves the cache as it is.
C18_ForceRefresh ==
    [][ret'.op = "list"
       => IF ret'.force_refresh
          THEN /\ IsListingOf(ret'.returned, files)
               /\ _conversations_cache' = CacheOf(ret'.returned)
          ELSE ~_conversations_cache.is_none
               => /\ ret'.returned = _conversations_cache.list
                  /\ _conversations_cache' = _conversations_cache]_vars

C18_Witness ==
    /\ ret.op = "list" /\ ret.force_refresh
    /\ prev.op = "other_save" /\ ~prev.cache_was_none
    /\ Len(ret.returned) = 2
    /\ IsListingOf(ret.returned, files)
    /\ _conversations_cache = CacheOf(ret.returned)

\* C19: for every Message x, also one whose metadata has a key role, content
\* or timestamp, Message.from_dict(x.to_dict()) has the role, the content and
\* the metadata (same keys, same values) of x.
C19_MessageRoundTrip ==
    [][(/\ ret.op = "Message.to_dict"
        /\ ret'.op = "Message.from_dict" /\ ret'.source = "to_dict")
       => (/\ ret'.returned.role = ret.self.role
           /\ ret'.returned.content = ret.self.content
           /\ DOMAIN ret'.returned.metadata = DOMAIN ret.self.metadata
           /\ \A k \in DOMAIN ret.self.metadata :
                 ret'.returned.metadata[k] = ret.self.metadata[k])]_vars

\* C20: add_message puts the message at the end and leaves the earlier messages
\* as they were, and sets updated_at to the time of the call; and every
\* Conversation that construction, from_dict, add_message and
\* set_system_prompt produce has an updated_at that is not earlier than its
\* created_at.
C20_AppendAndTimestamps ==
    [][/\ ret'.op = "add_message"
          => /\ ret'.self.messages = Append(ret.self.messages, ret'.message)
             /\ ret'.self.updated_at = isoformat(clock')
       /\ (\/ ret'.op \in {"Conversation", "add_message", "set_system_prompt"}
           \/ ret'.op = "Conversation.from_dict" /\ ret'.raised = "")
          => ~Newer(ret'.self.created_at, ret'.self.updated_at)]_vars

\* C21: get_api_messages returns a first entry {role: system, content:
\* system_prompt} exactly when a system prompt is set (a non-empty text), and
\* after it one pair {role, content} per message, in the order of the
\* messages, with no other key; without a system prompt its length is the
\* number of messages.
C21_ApiForm ==
    ret.op = "get_api_messages"
    => LET self == ret.self
           k == IF self.system_prompt \in {None, <<>>} THEN 0 ELSE 1
       IN  /\ Len(ret.returned) = k + Len(self.messages)
           /\ k = 1 => ret.returned[1]
                         = [role |-> "system", content |-> self.system_prompt]
           /\ \A i \in 1..Len(self.messages) :
                 /\ DOMAIN ret.returned[k + i] = {"role", "content"}
                 /\ ret.returned[k + i].role = self.messages[i].role
                 /\ ret.returned[k + i].content = self.messages[i].content

C21_Witness ==
    /\ ret.op = "get_api_messages"
    /\ ret.self.system_prompt = <<"S">>
    /\ Len(ret.self.messages) = 2
    /\ ret.self.messages[1] = noted
    /\ ret.self.messages[2] = reply
    /\ Len(ret.returned) = 3

\* C22: Message.from_dict and Conversation.from_dict of a record in which any
\* of the fields is missing or null do not raise, and the object returned has
\* the default in the place of every missing field.
C22_NeverRaises ==
    /\ ret.op = "Message.from_dict"
       => /\ ret.raised = ""
          /\ "role" \notin DOMAIN ret.data => ret.returned.role = ""
          /\ "content" \notin DOMAIN ret.data => ret.returned.content = <<>>
          /\ "timestamp" \notin DOMAIN ret.data
                => ret.returned.timestamp = strftime_HMS(clock)
    /\ ret.op = "Conversation.from_dict"
       => /\ ret.raised = ""
          /\ "created" \notin DOMAIN ret.data
                => ret.self.created_at = isoformat(clock)
          /\ "updated" \notin DOMAIN ret.data
                => ret.self.updated_at = isoformat(clock)
          /\ "messages" \notin DOMAIN ret.data => ret.self.messages = <<>>

\* the text is empty or made of whitespace only
IsBlank(text) == Split(text) = <<>>

\* C23: the rename of the session never stores an empty or whitespace-only
\* title: whatever is typed into the rename input and saved, no stored record
\* has such a title.
C23_NoBlankTitle ==
    \A x \in DOMAIN files : ~IsBlank(stored(files, x).title)

\* this step is a save_current_conversation of the session that writes the
\* record of an id that is already stored
SessionOverwrite ==
    /\ ret'.op \in {"chat_input", "save_chat"}
    /\ ret'.returned \in DOMAIN files

\* ... and the id is the current_conversation_id of the session
SessionUpdate == SessionOverwrite /\ ~Falsy(ret'.conversation_id)

\* a is a prefix of b
IsPrefix(a, b) == Len(a) <= Len(b) /\ SubSeq(b, 1, Len(a)) = a

\* C27: whenever current_conversation_id is set, the messages of the session
\* are those stored under that id; and a save of the session that overwrites a
\* stored conversation writes messages that continue the messages stored
\* there, never those of another conversation.
C27_SessionMessages ==
    /\ [](~Falsy(session_state.current_conversation_id)
          => /\ session_state.current_conversation_id \in DOMAIN files
             /\ stored(files, session_state.current_conversation_id).messages
                   = session_state.messages)
    /\ [][SessionUpdate
          => IsPrefix(stored(files, ret'.returned).messages,
                      stored(files', ret'.returned).messages)]_vars

\* C28: a title given by a rename (the title "N", which no save derives) stays
\* the stored title of the conversation across the saves of the session.
C28_TitleKept ==
    [][(SessionOverwrite /\ stored(files, ret'.returned).title = <<"N">>)
       => stored(files', ret'.returned).title = <<"N">>]_vars

C26_CacheIsListing ==
    _conversations_cache.is_none \/ IsListingOf(_conversations_cache.list, files)

C26_Witness ==
    /\ ~_conversations_cache.is_none
    /\ Len(_conversations_cache.list) = 1
    /\ ret.op = "rename" /\ ~ret.returned
    /\ prev.op = "delete" /\ ~prev.ok

\* the id a call of save, delete or rename is about: for a save the id returned
CallId(r) == IF r.op = "save" THEN r.returned ELSE r.conversation_id

\* C29: a save, delete or rename on id X leaves the record of every other id
\* as it was, and creates and removes no other record; and a rename of X that
\* succeeds leaves the id, the created timestamp and the messages of X as they
\* were.
C29_Frame ==
    [][ret'.op \in {"save", "delete", "rename"}
       => /\ \A y \in (DOMAIN files \cup DOMAIN files') \ {CallId(ret')} :
                /\ y \in DOMAIN files /\ y \in DOMAIN files'
                /\ files'[y] = files[y]
          /\ (ret'.op = "rename" /\ ret'.returned)
             => /\ stored(files', CallId(ret')).id = stored(files, CallId(ret')).id
                /\ stored(files', CallId(ret')).created
                      = stored(files, CallId(ret')).created
                /\ stored(files', CallId(ret')).messages
                      = stored(files, CallId(ret')).messages]_vars

C29_Witness ==
    /\ ret.op = "rename" /\ ret.returned
    /\ Cardinality(DOMAIN files) = 2
    /\ stored(files, ret.conversation_id).title = <<"N">>
    /\ Len(stored(files, ret.conversation_id).messages) = 2
    /\ \E y \in DOMAIN files :
          y # ret.conversation_id /\ stored(files, y).title # <<"N">>

\* C25: a save or rename that fails with an I/O error part-way through leaves
\* no half-written record: the record stored under that id before the call, if
\* any, is still loadable with the content it had, and the cached listing,
\* when there is one, is a listing of the files on disk.
C25_NoHalfWritten ==
    [][(ret'.op \in {"save", "rename"} /\ ret'.raised = "OSError")
       => /\ path_exists(files, ret'.file)
             => /\ path_exists(files', ret'.file)
                /\ read_error(files', ret'.file) = read_error(files, ret'.file)
                /\ files'[ret'.file] = files[ret'.file]
          /\ (~_conversations_cache.is_none
              /\ IsListingOf(_conversations_cache.list, files))
             => /\ ~_conversations_cache'.is_none
                /\ IsListingOf(_conversations_cache'.list, files')]_vars

\* C30: when a save(M, id = X) by one writer and a rename(X, T) by another
\* interleave, then once both have completed the record X holds the messages
\* M: here the rename completes right after the save did, its read having
\* been made before or after the save.
C30_SaveSurvivesRename ==
    [][(/\ ret'.op = "other_rename" /\ ret'.returned
        /\ ret.op = "save" /\ ret.raised = ""
        /\ ret.conversation_id = ret'.conversation_id)
       => stored(files', ret'.conversation_id).messages = ret.messages]_vars

=============================================================================
